---- MODULE Spec2Model ----
(***************************************************************************)
(* Model of the todo manager (src/TODO/todo_manager): the in-memory        *)
(* two-section document (TodoManager.todo_lists / done_lists), its         *)
(* mutation methods with their interactive prompts, and the markdown codec *)
(* (FileIOManager.parse_file / write_file).                                *)
(*                                                                         *)
(* A Python str is modelled as a sequence of one-character strings, so     *)
(* that strip(), lower(), startswith(), the task regular expression and    *)
(* int() are computed character by character.  A Section (an insertion-    *)
(* ordered dict from list name to list of tasks) is a sequence of records  *)
(* [name, tasks] with pairwise different names, in insertion order.        *)
(***************************************************************************)
EXTENDS Integers, Sequences, FiniteSets, TLC

VARIABLES
    todo_lists,   \* TodoManager.todo_lists
    done_lists,   \* TodoManager.done_lists
    file,         \* text of the todo file (a sequence of characters)
    driver,       \* who calls the methods: "lib" (a script holding one TodoManager,
                  \* as test_todo.py) or "cli" (cli.main, one command per process)
    pc,           \* where the running method stands: "idle", a prompt, "returned"
    call,         \* activation record of the running method (arguments, entry snapshot)
    report        \* the diagnostic the method printed last

vars == <<todo_lists, done_lists, file, driver, pc, call, report>>

(***************************************************************************)
(* Bounds of the model.                                                    *)
(***************************************************************************)
MaxLists == 2    \* lists held by Todo and Done together
MaxTasks == 2    \* tasks held by all lists together
MaxOrderLen == 3 \* length of the list that SpecOrder reorders

(***************************************************************************)
(* Characters and strings.                                                 *)
(***************************************************************************)
UpperChars == <<"A","B","C","D","E","F","G","H","I","J","K","L","M",
                "N","O","P","Q","R","S","T","U","V","W","X","Y","Z">>
LowerChars == <<"a","b","c","d","e","f","g","h","i","j","k","l","m",
                "n","o","p","q","r","s","t","u","v","w","x","y","z">>
DigitChars == <<"0","1","2","3","4","5","6","7","8","9">>
Whitespace == {" ", "\t"}
NL == "\n"

IsDigit(c) == \E i \in 1..Len(DigitChars) : DigitChars[i] = c
DigitVal(c) == (CHOOSE i \in 1..Len(DigitChars) : DigitChars[i] = c) - 1

\* str.lower() on one character
LowerChar(c) ==
    IF \E i \in 1..Len(UpperChars) : UpperChars[i] = c
    THEN LowerChars[CHOOSE i \in 1..Len(UpperChars) : UpperChars[i] = c]
    ELSE c

\* str.lower()
Lower(s) == [i \in 1..Len(s) |-> LowerChar(s[i])]

RECURSIVE LStrip(_)
LStrip(s) ==
    IF s # <<>> /\ Head(s) \in Whitespace THEN LStrip(Tail(s)) ELSE s

RECURSIVE RStrip(_)
RStrip(s) ==
    IF s # <<>> /\ s[Len(s)] \in Whitespace
    THEN RStrip(SubSeq(s, 1, Len(s) - 1))
    ELSE s

\* str.strip()
Strip(s) == RStrip(LStrip(s))

\* str.startswith(p)
StartsWith(s, p) == Len(s) >= Len(p) /\ SubSeq(s, 1, Len(p)) = p

\* s[n:]
DropFirst(s, n) == SubSeq(s, n + 1, Len(s))

\* "sub in s" on strings
Contains(s, sub) ==
    \E i \in 0..(Len(s) - Len(sub)) : SubSeq(s, i + 1, i + Len(sub)) = sub

\* f"{i}" for a natural number i
RECURSIVE IntToStr(_)
IntToStr(n) ==
    IF n < 10 THEN <<DigitChars[n + 1]>>
    ELSE IntToStr(n \div 10) \o <<DigitChars[(n % 10) + 1]>>

RECURSIVE DigitsVal(_, _)
DigitsVal(s, acc) ==
    IF s = <<>> THEN acc ELSE DigitsVal(Tail(s), acc * 10 + DigitVal(Head(s)))

AllDigits(s) == s # <<>> /\ \A i \in 1..Len(s) : IsDigit(s[i])

\* int(text): an optional sign and decimal digits; ok is FALSE where Python
\* raises ValueError.  (Python also accepts single underscores between digits
\* and non-ASCII digits; not modelled.)
StrToInt(text) ==
    LET s == Strip(text) IN
    IF s # <<>> /\ Head(s) = "-" /\ AllDigits(Tail(s))
    THEN [ok |-> TRUE, val |-> 0 - DigitsVal(Tail(s), 0)]
    ELSE IF s # <<>> /\ Head(s) = "+" /\ AllDigits(Tail(s))
    THEN [ok |-> TRUE, val |-> DigitsVal(Tail(s), 0)]
    ELSE IF AllDigits(s) THEN [ok |-> TRUE, val |-> DigitsVal(s, 0)]
    ELSE [ok |-> FALSE, val |-> 0]

(***************************************************************************)
(* Sections: insertion-ordered dicts.                                      *)
(***************************************************************************)
EmptySection == <<>>

\* "name in section"
HasList(sec, name) == \E i \in 1..Len(sec) : sec[i].name = name

IndexOf(sec, name) == CHOOSE i \in 1..Len(sec) : sec[i].name = name

\* section[name]
TasksOf(sec, name) == sec[IndexOf(sec, name)].tasks

\* the keys, in insertion order
ListNames(sec) == [i \in 1..Len(sec) |-> sec[i].name]

\* section[name] = tasks: an existing key keeps its place, a new key goes last
SetList(sec, name, tasks) ==
    IF HasList(sec, name)
    THEN [sec EXCEPT ![IndexOf(sec, name)].tasks = tasks]
    ELSE Append(sec, [name |-> name, tasks |-> tasks])

\* the section after section.pop(name)
RemoveList(sec, name) ==
    LET i == IndexOf(sec, name) IN
    SubSeq(sec, 1, i - 1) \o SubSeq(sec, i + 1, Len(sec))

\* list.pop(i - 1) leaves this list behind
PopAt(tasks, i) == SubSeq(tasks, 1, i - 1) \o SubSeq(tasks, i + 1, Len(tasks))

\* list.insert(i - 1, t) on a list; Python clamps an index past the end
InsertAt(tasks, i, t) ==
    LET k == IF i - 1 > Len(tasks) THEN Len(tasks) ELSE i - 1 IN
    SubSeq(tasks, 1, k) \o <<t>> \o SubSeq(tasks, k + 1, Len(tasks))

RECURSIVE CountTasks(_)
CountTasks(sec) ==
    IF sec = <<>> THEN 0 ELSE Len(Head(sec).tasks) + CountTasks(Tail(sec))

TotalLists == Len(todo_lists) + Len(done_lists)
TotalTasks == CountTasks(todo_lists) + CountTasks(done_lists)

(***************************************************************************)
(* Arguments and prompt answers the caller may give.                       *)
(***************************************************************************)
WorkName  == <<"W","o","r","k">>
QueryName == <<"w","o">>          \* not a list at first; a substring of "Work" once lowered
EmptyName == <<>>                 \* the empty string, which argparse passes through

NameArgs == {WorkName, QueryName, EmptyName}
TaskArgs == {<<"A">>, <<"B"," ">>}   \* the second one typed with a trailing blank
PosArgs  == (0 - 1)..MaxTasks

YesNoAnswers == {<<>>, <<"Y">>, <<"y","e","s">>, <<"n">>, <<"N","o"," ">>, <<"q">>}
\* every number a candidate can have, 0, and answers that select nothing
SelectionAnswers ==
    {<<" ">> \o IntToStr(k) : k \in 0..MaxLists} \cup {<<>>, <<"-","1">>, <<"x">>}

OrderTaskArgs == {<<"A">>, <<"B">>, <<"C">>}
OrderPosArgs  == (0 - 1)..(MaxOrderLen + 1)

MaxAsk == 2      \* times one yes/no prompt is shown before the model stops answering wrongly

(***************************************************************************)
(* Diagnostics (output.py: info / success / warning / error).  Only the    *)
(* last message a call printed is kept, with the number it mentions.       *)
(***************************************************************************)
Msg(kind, num) == [kind |-> kind, num |-> num]
NoReport == Msg("none", 0)

NoCall ==
    [op |-> "none", list_name |-> <<>>, task |-> <<>>, num |-> 0, new |-> 0,
     force |-> FALSE, todo0 |-> <<>>, done0 |-> <<>>,
     prompt |-> "none", asked |-> 0, answer |-> <<>>]

NewCall(op, list_name, task, num, new, force) ==
    [op |-> op, list_name |-> list_name, task |-> task, num |-> num, new |-> new,
     force |-> force, todo0 |-> todo_lists, done0 |-> done_lists,
     prompt |-> "none", asked |-> 0, answer |-> <<>>]

\* The record once the method blocks in input() on the given prompt.
Asking(c, prompt) == [c EXCEPT !.prompt = prompt, !.asked = 1]

\* The bounds stop growth only: a call may not leave more lists than MaxLists
\* or more tasks than MaxTasks unless there were at least as many before it.
Larger(a, b) == IF a >= b THEN a ELSE b

Bounded(todo, done) ==
    /\ Len(todo) + Len(done) <= Larger(MaxLists, TotalLists)
    /\ CountTasks(todo) + CountTasks(done) <= Larger(MaxTasks, TotalTasks)

(***************************************************************************)
(* display.select_option: one pass of its loop on one response.            *)
(***************************************************************************)
\* "yes" / "no": the value returned; "retry": the loop prints a notice and asks again.
SelectOption(response, default) ==
    LET r == Lower(Strip(response)) IN
    IF r = <<>> THEN (IF default THEN "yes" ELSE "no")
    ELSE IF r \in {<<"y">>, <<"y","e","s">>} THEN "yes"
    ELSE IF r \in {<<"n">>, <<"n","o">>} THEN "no"
    ELSE "retry"

(***************************************************************************)
(* TodoManager._match_list_name and _check_list_name.                      *)
(***************************************************************************)
\* Variant of MatchListName: the comparison keeps the case of both names.
MatchListNameCaseSensitive(todo, list_name) ==
    LET Matches(existing) == Contains(existing, list_name) IN
    SelectSeq(ListNames(todo), Matches)

MatchListName(todo, list_name) ==
    LET Matches(existing) == Contains(Lower(existing), Lower(list_name)) IN
    SelectSeq(ListNames(todo), Matches)

\* What _check_list_name does before it needs the user: "exact" (returns the
\* name), "input" (candidates shown, a selection is read), "select_option"
\* (creation is offered), "nothing" (returns "").
CheckListNamePrompt(todo, list_name, no_create) ==
    IF HasList(todo, list_name) THEN "exact"
    ELSE IF MatchListName(todo, list_name) # <<>> THEN "input"
    ELSE IF ~no_create THEN "select_option"
    ELSE "nothing"

\* The message _check_list_name and _match_list_name leave last before a prompt.
CheckListNameMsg(todo, list_name) ==
    IF HasList(todo, list_name) THEN NoReport
    ELSE IF MatchListName(todo, list_name) # <<>> THEN Msg("candidates", 0)
    ELSE Msg("no_matching_list", 0)

\* Variant of CheckSelection: a number past the last candidate is taken as a
\* request for a new list instead of being refused.
CheckSelectionOutOfRangeCreates(todo, list_name, no_create, text) ==
    LET matched == MatchListName(todo, list_name)
        selection_text == Strip(text)
        selection == StrToInt(selection_text)
    IN  IF selection_text = <<>>
        THEN [name |-> <<>>, msg |-> Msg("candidates", 0)]
        ELSE IF ~selection.ok
        THEN [name |-> <<>>, msg |-> Msg("invalid_input", 0)]
        ELSE IF 1 <= selection.val /\ selection.val <= Len(matched)
        THEN [name |-> matched[selection.val], msg |-> Msg("candidates", 0)]
        ELSE IF ~no_create
        THEN [name |-> list_name, msg |-> Msg("candidates", 0)]
        ELSE [name |-> <<>>, msg |-> Msg("out_of_range", 0)]

\* Variant of CheckSelection: whatever candidate number is given, the first
\* candidate is taken (matched_names[0]).
CheckSelectionFirstCandidate(todo, list_name, no_create, text) ==
    LET matched == MatchListName(todo, list_name)
        selection_text == Strip(text)
        selection == StrToInt(selection_text)
    IN  IF selection_text = <<>>
        THEN [name |-> <<>>, msg |-> Msg("candidates", 0)]
        ELSE IF ~selection.ok
        THEN [name |-> <<>>, msg |-> Msg("invalid_input", 0)]
        ELSE IF selection.val = 0 /\ ~no_create
        THEN [name |-> list_name, msg |-> Msg("candidates", 0)]
        ELSE IF 1 <= selection.val /\ selection.val <= Len(matched)
        THEN [name |-> matched[1], msg |-> Msg("candidates", 0)]
        ELSE [name |-> <<>>, msg |-> Msg("out_of_range", 0)]

\* _check_list_name after input(): the name it returns and the message it prints.
CheckSelection(todo, list_name, no_create, text) ==
    LET matched == MatchListName(todo, list_name)
        selection_text == Strip(text)
        selection == StrToInt(selection_text)
    IN  IF selection_text = <<>>
        THEN [name |-> <<>>, msg |-> Msg("candidates", 0)]
        ELSE IF ~selection.ok
        THEN [name |-> <<>>, msg |-> Msg("invalid_input", 0)]
        ELSE IF selection.val = 0 /\ ~no_create
        THEN [name |-> list_name, msg |-> Msg("candidates", 0)]
        ELSE IF 1 <= selection.val /\ selection.val <= Len(matched)
        THEN [name |-> matched[selection.val], msg |-> Msg("candidates", 0)]
        ELSE [name |-> <<>>, msg |-> Msg("out_of_range", 0)]

(***************************************************************************)
(* The methods as functions of the sections.  Each gives the sections and  *)
(* the last message after the method's body has run.                       *)
(***************************************************************************)
Outcome(todo, done, msg) == [todo |-> todo, done |-> done, msg |-> msg]

\* Variant of AddListBody: the list is set to [] without looking whether it
\* exists, so that an existing list loses its tasks.
AddListBodyOverwrites(todo, done, list_name, quiet) ==
    Outcome(SetList(todo, list_name, <<>>), done,
            IF quiet THEN NoReport
            ELSE IF HasList(todo, list_name) THEN Msg("list_exists", 0)
            ELSE Msg("added_list", 0))

\* TodoManager.add_list
AddListBody(todo, done, list_name, quiet) ==
    IF HasList(todo, list_name)
    THEN Outcome(todo, done, IF quiet THEN NoReport ELSE Msg("list_exists", 0))
    ELSE Outcome(SetList(todo, list_name, <<>>), done,
                 IF quiet THEN NoReport ELSE Msg("added_list", 0))

\* Variant of AddTaskBody: a list that add_task creates is put first in Todo.
AddTaskBodyNewListFirst(todo, done, validated_list_name, task) ==
    IF validated_list_name # <<>>
    THEN IF HasList(todo, validated_list_name)
         THEN Outcome(SetList(todo, validated_list_name,
                              Append(TasksOf(todo, validated_list_name), task)),
                      done, Msg("added_task", 0))
         ELSE Outcome(<<[name |-> validated_list_name, tasks |-> <<task>>]>> \o todo,
                      done, Msg("added_task", 0))
    ELSE Outcome(todo, done, Msg("cancelled", 0))

\* TodoManager.add_task from the point where _check_list_name has returned
AddTaskBody(todo, done, validated_list_name, task) ==
    IF validated_list_name # <<>>
    THEN LET added == AddListBody(todo, done, validated_list_name, TRUE).todo IN
         Outcome(SetList(added, validated_list_name,
                         Append(TasksOf(added, validated_list_name), task)),
                 done, Msg("added_task", 0))
    ELSE Outcome(todo, done, Msg("cancelled", 0))

\* TodoManager._validate_task_number
ValidateTaskNumber(task_number, list_size) ==
    1 <= task_number /\ task_number <= list_size

\* Variant of Reorder: the two tasks exchange their places.
ReorderSwaps(tasks, old_position, new_position) ==
    [tasks EXCEPT ![old_position] = tasks[new_position],
                  ![new_position] = tasks[old_position]]

\* Variant of Reorder: the task is taken out and not put back.
ReorderLosesTask(tasks, old_position, new_position) == PopAt(tasks, old_position)

\* tasks.pop(old_position - 1); tasks.insert(new_position - 1, task)
Reorder(tasks, old_position, new_position) ==
    InsertAt(PopAt(tasks, old_position), new_position, tasks[old_position])

\* Variant of OrderTaskBody: as add_task does, it first makes sure that the
\* list exists (add_list(validated_list_name, quiet=True)).
OrderTaskBodyAddsList(todo, done, validated_list_name, old_position, new_position, msg) ==
    LET added == AddListBody(todo, done, validated_list_name, TRUE).todo
        tasks == TasksOf(added, validated_list_name)
    IN  IF ~ValidateTaskNumber(old_position, Len(tasks))
        THEN Outcome(added, done, Msg("invalid_task_number", old_position))
        ELSE IF ~ValidateTaskNumber(new_position, Len(tasks))
        THEN Outcome(added, done, Msg("invalid_new_task_number", new_position))
        ELSE Outcome(SetList(added, validated_list_name,
                             Reorder(tasks, old_position, new_position)),
                     done, Msg("moved_task", 0))

\* TodoManager.order_task from the point where _check_list_name has returned;
\* msg is the message _check_list_name left.
OrderTaskBody(todo, done, validated_list_name, old_position, new_position, msg) ==
    IF validated_list_name = <<>> THEN Outcome(todo, done, msg)
    ELSE LET tasks == TasksOf(todo, validated_list_name) IN
         IF ~ValidateTaskNumber(old_position, Len(tasks))
         THEN Outcome(todo, done, Msg("invalid_task_number", old_position))
         ELSE IF ~ValidateTaskNumber(new_position, Len(tasks))
         THEN Outcome(todo, done, Msg("invalid_new_task_number", new_position))
         ELSE Outcome(SetList(todo, validated_list_name,
                              Reorder(tasks, old_position, new_position)),
                      done, Msg("moved_task", 0))

\* Variant of MoveTask: the task is put in front of the target list.
MoveTaskPrepends(source, target, list_name, task_number) ==
    IF ~HasList(source, list_name)
    THEN [ok |-> FALSE, source |-> source, target |-> target,
          msg |-> Msg("no_such_list", 0)]
    ELSE IF ~(1 <= task_number /\ task_number <= Len(TasksOf(source, list_name)))
    THEN [ok |-> FALSE, source |-> source, target |-> target,
          msg |-> Msg("invalid_task_number", task_number)]
    ELSE LET tasks == TasksOf(source, list_name)
             task == tasks[task_number]
         IN  [ok |-> TRUE,
              source |-> SetList(source, list_name, PopAt(tasks, task_number)),
              target |-> IF HasList(target, list_name)
                         THEN SetList(target, list_name,
                                      <<task>> \o TasksOf(target, list_name))
                         ELSE SetList(target, list_name, <<task>>),
              msg |-> NoReport]

\* Variant of MoveTask: only the upper bound of the position is checked, so
\* that pop() takes 0 and negative positions as indexes from the end.
MoveTaskNoLowerBound(source, target, list_name, task_number) ==
    IF ~HasList(source, list_name)
    THEN [ok |-> FALSE, source |-> source, target |-> target,
          msg |-> Msg("no_such_list", 0)]
    ELSE LET tasks == TasksOf(source, list_name)
             at == IF task_number >= 1 THEN task_number ELSE Len(tasks) + task_number
         IN  IF ~(task_number <= Len(tasks)) \/ at < 1
             THEN [ok |-> FALSE, source |-> source, target |-> target,
                   msg |-> Msg("invalid_task_number", task_number)]
             ELSE [ok |-> TRUE,
                   source |-> SetList(source, list_name, PopAt(tasks, at)),
                   target |-> IF HasList(target, list_name)
                              THEN SetList(target, list_name,
                                           Append(TasksOf(target, list_name), tasks[at]))
                              ELSE SetList(target, list_name, <<tasks[at]>>),
                   msg |-> NoReport]

\* Variant of MoveTask: pop() is called without the index and takes the last
\* task of the list.
MoveTaskPopsLast(source, target, list_name, task_number) ==
    IF ~HasList(source, list_name)
    THEN [ok |-> FALSE, source |-> source, target |-> target,
          msg |-> Msg("no_such_list", 0)]
    ELSE IF ~(1 <= task_number /\ task_number <= Len(TasksOf(source, list_name)))
    THEN [ok |-> FALSE, source |-> source, target |-> target,
          msg |-> Msg("invalid_task_number", task_number)]
    ELSE LET tasks == TasksOf(source, list_name)
             task == tasks[Len(tasks)]
         IN  [ok |-> TRUE,
              source |-> SetList(source, list_name, PopAt(tasks, Len(tasks))),
              target |-> IF HasList(target, list_name)
                         THEN SetList(target, list_name,
                                      Append(TasksOf(target, list_name), task))
                         ELSE SetList(target, list_name, <<task>>),
              msg |-> NoReport]

\* Variant of MoveTask: a list that has given away its last task is deleted
\* from the source section.
MoveTaskDropsEmptied(source, target, list_name, task_number) ==
    IF ~HasList(source, list_name)
    THEN [ok |-> FALSE, source |-> source, target |-> target,
          msg |-> Msg("no_such_list", 0)]
    ELSE IF ~(1 <= task_number /\ task_number <= Len(TasksOf(source, list_name)))
    THEN [ok |-> FALSE, source |-> source, target |-> target,
          msg |-> Msg("invalid_task_number", task_number)]
    ELSE LET tasks == TasksOf(source, list_name)
             task == tasks[task_number]
         IN  [ok |-> TRUE,
              source |-> IF Len(tasks) = 1 THEN RemoveList(source, list_name)
                         ELSE SetList(source, list_name, PopAt(tasks, task_number)),
              target |-> IF HasList(target, list_name)
                         THEN SetList(target, list_name,
                                      Append(TasksOf(target, list_name), task))
                         ELSE SetList(target, list_name, <<task>>),
              msg |-> NoReport]

\* TodoManager._move_task
MoveTask(source, target, list_name, task_number) ==
    IF ~HasList(source, list_name)
    THEN [ok |-> FALSE, source |-> source, target |-> target,
          msg |-> Msg("no_such_list", 0)]
    ELSE IF ~(1 <= task_number /\ task_number <= Len(TasksOf(source, list_name)))
    THEN [ok |-> FALSE, source |-> source, target |-> target,
          msg |-> Msg("invalid_task_number", task_number)]
    ELSE LET tasks == TasksOf(source, list_name)
             task == tasks[task_number]
         IN  [ok |-> TRUE,
              source |-> SetList(source, list_name, PopAt(tasks, task_number)),
              target |-> IF HasList(target, list_name)
                         THEN SetList(target, list_name,
                                      Append(TasksOf(target, list_name), task))
                         ELSE SetList(target, list_name, <<task>>),
              msg |-> NoReport]

\* Variant of MoveList: the list is copied, the source keeps it.
MoveListKeepsSource(source, target, list_name) ==
    IF ~HasList(source, list_name)
    THEN [ok |-> FALSE, source |-> source, target |-> target,
          msg |-> Msg("no_such_list", 0)]
    ELSE [ok |-> TRUE,
          source |-> source,
          target |-> SetList(target, list_name, TasksOf(source, list_name)),
          msg |-> NoReport]

\* Variant of MoveList: the moved tasks are added to those the target holds.
MoveListMerges(source, target, list_name) ==
    IF ~HasList(source, list_name)
    THEN [ok |-> FALSE, source |-> source, target |-> target,
          msg |-> Msg("no_such_list", 0)]
    ELSE [ok |-> TRUE,
          source |-> RemoveList(source, list_name),
          target |-> SetList(target, list_name,
                             (IF HasList(target, list_name)
                              THEN TasksOf(target, list_name) ELSE <<>>)
                             \o TasksOf(source, list_name)),
          msg |-> NoReport]

\* TodoManager._move_list
MoveList(source, target, list_name) ==
    IF ~HasList(source, list_name)
    THEN [ok |-> FALSE, source |-> source, target |-> target,
          msg |-> Msg("no_such_list", 0)]
    ELSE [ok |-> TRUE,
          source |-> RemoveList(source, list_name),
          target |-> SetList(target, list_name, TasksOf(source, list_name)),
          msg |-> NoReport]

\* TodoManager.done_task
DoneTaskBody(todo, done, list_name, task_number) ==
    LET m == MoveTask(todo, done, list_name, task_number) IN
    Outcome(m.source, m.target, IF m.ok THEN Msg("done_task", task_number) ELSE m.msg)

\* TodoManager.restore_task
RestoreTaskBody(todo, done, list_name, task_number) ==
    LET m == MoveTask(done, todo, list_name, task_number) IN
    Outcome(m.target, m.source, IF m.ok THEN Msg("restored_task", task_number) ELSE m.msg)

\* TodoManager.done_list
DoneListBody(todo, done, list_name) ==
    LET m == MoveList(todo, done, list_name) IN
    Outcome(m.source, m.target, IF m.ok THEN Msg("done_list", 0) ELSE m.msg)

\* TodoManager.restore_list
RestoreListBody(todo, done, list_name) ==
    LET m == MoveList(done, todo, list_name) IN
    Outcome(m.target, m.source, IF m.ok THEN Msg("restored_list", 0) ELSE m.msg)

\* Variant of ClearDoneBody: force is not looked at, only a confirmation clears.
ClearDoneBodyIgnoresForce(todo, done, force, confirmed) ==
    IF confirmed THEN Outcome(todo, EmptySection, Msg("cleared", 0))
    ELSE Outcome(todo, done, Msg("abort_clear", 0))

\* TodoManager.clear_done_list once it knows whether to clear
ClearDoneBody(todo, done, force, confirmed) ==
    IF force THEN Outcome(todo, EmptySection, Msg("cleared_all", 0))
    ELSE IF confirmed THEN Outcome(todo, EmptySection, Msg("cleared", 0))
    ELSE Outcome(todo, done, Msg("abort_clear", 0))

(***************************************************************************)
(* The todo file (file_io.py).  The file is its text; a line ends at "\n". *)
(***************************************************************************)
TODO_SECTION == <<"T","o","d","o">>
DONE_SECTION == <<"D","o","n","e">>

\* FileIOManager.create_new_file: "# Todo\n\n# Done\n"
NewFileText == <<"#"," ">> \o TODO_SECTION \o <<NL, NL>> \o <<"#"," ">> \o DONE_SECTION \o <<NL>>

\* write_file as it would be if every task were written with the number 1
RECURSIVE TaskLinesAllOne(_, _)
TaskLinesAllOne(tasks, i) ==
    IF tasks = <<>> THEN <<>>
    ELSE IntToStr(1) \o <<".", " ">> \o Head(tasks) \o <<NL>> \o TaskLinesAllOne(Tail(tasks), i)

\* the tasks of one list as write_file numbers them, from number i on
RECURSIVE TaskLines(_, _)
TaskLines(tasks, i) ==
    IF tasks = <<>> THEN <<>>
    ELSE IntToStr(i) \o <<".", " ">> \o Head(tasks) \o <<NL>> \o TaskLines(Tail(tasks), i + 1)

\* the lists of one section as write_file writes them
RECURSIVE SectionText(_)
SectionText(sec) ==
    IF sec = <<>> THEN <<>>
    ELSE <<"#","#"," ">> \o Head(sec).name \o <<NL, NL>>
         \o TaskLines(Head(sec).tasks, 1) \o <<NL>> \o SectionText(Tail(sec))

\* FileIOManager.write_file: the text it leaves in the file
WriteFileText(todo, done) ==
    <<"#"," ">> \o TODO_SECTION \o <<NL, NL>> \o SectionText(todo)
    \o <<"#"," ">> \o DONE_SECTION \o <<NL, NL>> \o SectionText(done)

\* "for line in f: file_lines.append(line.strip())"
RECURSIVE SplitLines(_)
SplitLines(text) ==
    IF text = <<>> THEN <<>>
    ELSE LET ends == {i \in 1..Len(text) : text[i] = NL}
             k == IF ends = {} THEN Len(text) + 1
                  ELSE CHOOSE i \in ends : \A j \in ends : i <= j
         IN  <<Strip(SubSeq(text, 1, k - 1))>> \o SplitLines(SubSeq(text, k + 1, Len(text)))

RECURSIVE LeadingDigits(_)
LeadingDigits(s) ==
    IF s # <<>> /\ IsDigit(Head(s)) THEN 1 + LeadingDigits(Tail(s)) ELSE 0

\* the task text as it would be if the marker were kept
TaskOfLineKeepsMarker(line) == line

\* re.match(r"^\d+\.\s(.*)$", line): group(1) on a match, the line otherwise
TaskOfLine(line) ==
    LET s == Strip(line)
        k == LeadingDigits(s)
    IN  IF k >= 1 /\ Len(s) >= k + 2 /\ s[k + 1] = "." /\ s[k + 2] \in Whitespace
        THEN DropFirst(s, k + 2)
        ELSE line

\* The parser's variables: todo_lists, done_lists, the dict current_section is
\* bound to ("none": the dict it starts as, which is neither section; its
\* content is kept in orphan), and list_name.
ParseStart ==
    [todo |-> EmptySection, done |-> EmptySection, orphan |-> EmptySection,
     current |-> "none", list_name |-> <<>>]

CurrentSection(st) ==
    IF st.current = "todo" THEN st.todo
    ELSE IF st.current = "done" THEN st.done
    ELSE st.orphan

WithCurrentSection(st, sec) ==
    IF st.current = "todo" THEN [st EXCEPT !.todo = sec]
    ELSE IF st.current = "done" THEN [st EXCEPT !.done = sec]
    ELSE [st EXCEPT !.orphan = sec]

\* parse_file as it would be if a task line without a list opened a list
ParseLineKeepsOrphans(st, line) ==
    IF line = <<>> THEN st
    ELSE IF StartsWith(line, <<"#"," ">>)
    THEN LET section_name == Strip(DropFirst(line, 2)) IN
         IF section_name = TODO_SECTION THEN [st EXCEPT !.current = "todo"]
         ELSE IF section_name = DONE_SECTION THEN [st EXCEPT !.current = "done"]
         ELSE st
    ELSE IF StartsWith(line, <<"#","#"," ">>)
    THEN LET name == Strip(DropFirst(line, 3)) IN
         [WithCurrentSection(st, SetList(CurrentSection(st), name, <<>>))
             EXCEPT !.list_name = name]
    ELSE LET task == TaskOfLine(line) IN
         IF ~HasList(CurrentSection(st), st.list_name)
         THEN WithCurrentSection(st, SetList(CurrentSection(st), st.list_name, <<task>>))
         ELSE WithCurrentSection(st,
                  SetList(CurrentSection(st), st.list_name,
                          Append(TasksOf(CurrentSection(st), st.list_name), task)))

\* parse_file as it would be if section names were compared without case
ParseLineAnyCase(st, line) ==
    IF line = <<>> THEN st
    ELSE IF StartsWith(line, <<"#"," ">>)
    THEN LET section_name == Lower(Strip(DropFirst(line, 2))) IN
         IF section_name = Lower(TODO_SECTION) THEN [st EXCEPT !.current = "todo"]
         ELSE IF section_name = Lower(DONE_SECTION) THEN [st EXCEPT !.current = "done"]
         ELSE st
    ELSE IF StartsWith(line, <<"#","#"," ">>)
    THEN LET name == Strip(DropFirst(line, 3)) IN
         [WithCurrentSection(st, SetList(CurrentSection(st), name, <<>>))
             EXCEPT !.list_name = name]
    ELSE LET task == TaskOfLine(line) IN
         IF ~HasList(CurrentSection(st), st.list_name) THEN st
         ELSE WithCurrentSection(st,
                  SetList(CurrentSection(st), st.list_name,
                          Append(TasksOf(CurrentSection(st), st.list_name), task)))

\* parse_file as it would be if a repeated list header kept the earlier tasks
ParseLineKeepsEarlierTasks(st, line) ==
    IF line = <<>> THEN st
    ELSE IF StartsWith(line, <<"#"," ">>)
    THEN LET section_name == Strip(DropFirst(line, 2)) IN
         IF section_name = TODO_SECTION THEN [st EXCEPT !.current = "todo"]
         ELSE IF section_name = DONE_SECTION THEN [st EXCEPT !.current = "done"]
         ELSE st
    ELSE IF StartsWith(line, <<"#","#"," ">>)
    THEN LET name == Strip(DropFirst(line, 3)) IN
         [(IF HasList(CurrentSection(st), name) THEN st
           ELSE WithCurrentSection(st, SetList(CurrentSection(st), name, <<>>)))
             EXCEPT !.list_name = name]
    ELSE LET task == TaskOfLine(line) IN
         IF ~HasList(CurrentSection(st), st.list_name) THEN st
         ELSE WithCurrentSection(st,
                  SetList(CurrentSection(st), st.list_name,
                          Append(TasksOf(CurrentSection(st), st.list_name), task)))

\* one pass of parse_file's loop over file_lines
ParseLine(st, line) ==
    IF line = <<>> THEN st
    ELSE IF StartsWith(line, <<"#"," ">>)
    THEN LET section_name == Strip(DropFirst(line, 2)) IN
         IF section_name = TODO_SECTION THEN [st EXCEPT !.current = "todo"]
         ELSE IF section_name = DONE_SECTION THEN [st EXCEPT !.current = "done"]
         ELSE st
    ELSE IF StartsWith(line, <<"#","#"," ">>)
    THEN LET name == Strip(DropFirst(line, 3)) IN
         [WithCurrentSection(st, SetList(CurrentSection(st), name, <<>>))
             EXCEPT !.list_name = name]
    ELSE LET task == TaskOfLine(line) IN
         IF ~HasList(CurrentSection(st), st.list_name) THEN st
         ELSE WithCurrentSection(st,
                  SetList(CurrentSection(st), st.list_name,
                          Append(TasksOf(CurrentSection(st), st.list_name), task)))

RECURSIVE ParseLines(_, _)
ParseLines(st, lines) ==
    IF lines = <<>> THEN st ELSE ParseLines(ParseLine(st, Head(lines)), Tail(lines))

\* FileIOManager.parse_file on an existing file
ParseFile(text) == ParseLines(ParseStart, SplitLines(text))

(***************************************************************************)
(* Actions.  Under the "lib" driver one TodoManager object is called one    *)
(* method after the other (test_todo.py).  Under the "cli" driver every    *)
(* command is one process (cli.main): TodoManager(...) parses the file,    *)
(* the command's method runs, write_file() rewrites the file, the process  *)
(* ends.  A method that prompts blocks in input() until it is answered.    *)
(***************************************************************************)
\* The same bounds on what the next command-line process will read from the
\* file (it may parse to more tasks than were written).
BoundedFile(text) == Bounded(ParseFile(text).todo, ParseFile(text).done)

\* TodoManager.__init__ on a file just made by create_new_file
Start(d) ==
    /\ driver = d
    /\ file = NewFileText
    /\ todo_lists = ParseFile(file).todo
    /\ done_lists = ParseFile(file).done
    /\ pc = "idle"
    /\ call = NoCall
    /\ report = NoReport

Init == Start("lib")

InitCli == Start("cli")

\* The method's body has run to its end with outcome o; cli.main then calls
\* write_file().
Finish(o, c) ==
    /\ Bounded(o.todo, o.done)
    /\ driver = "cli" => BoundedFile(WriteFileText(o.todo, o.done))
    /\ todo_lists' = o.todo
    /\ done_lists' = o.done
    /\ report' = o.msg
    /\ call' = c
    /\ pc' = "returned"
    /\ file' = IF driver = "cli" THEN WriteFileText(o.todo, o.done) ELSE file
    /\ UNCHANGED driver

\* The method blocks on a prompt; nothing has been changed yet.
Block(prompt, c, msg) ==
    /\ pc' = prompt
    /\ call' = Asking(c, prompt)
    /\ report' = msg
    /\ UNCHANGED <<todo_lists, done_lists, file, driver>>

AddList(list_name) ==
    /\ pc = "idle"
    /\ Finish(AddListBody(todo_lists, done_lists, list_name, FALSE),
              NewCall("add_list", list_name, <<>>, 0, 0, FALSE))

AddTask(list_name, task) ==
    /\ pc = "idle"
    /\ LET c == NewCall("add_task", list_name, task, 0, 0, FALSE)
           p == CheckListNamePrompt(todo_lists, list_name, FALSE)
       IN  IF p = "exact"
           THEN Finish(AddTaskBody(todo_lists, done_lists, list_name, task), c)
           ELSE Block(p, c, CheckListNameMsg(todo_lists, list_name))

OrderTask(list_name, old_position, new_position) ==
    /\ pc = "idle"
    /\ LET c == NewCall("order_task", list_name, <<>>, old_position, new_position, FALSE)
           p == CheckListNamePrompt(todo_lists, list_name, TRUE)
       IN  IF p = "exact"
           THEN Finish(OrderTaskBody(todo_lists, done_lists, list_name,
                                     old_position, new_position, NoReport), c)
           ELSE IF p = "nothing"
           THEN Finish(OrderTaskBody(todo_lists, done_lists, <<>>,
                                     old_position, new_position,
                                     CheckListNameMsg(todo_lists, list_name)), c)
           ELSE Block(p, c, CheckListNameMsg(todo_lists, list_name))

\* The caller answers the numbered selection of _check_list_name.
AnswerSelection(text) ==
    /\ pc = "input"
    /\ LET c == [call EXCEPT !.answer = text]
           r == CheckSelection(todo_lists, call.list_name, call.op = "order_task", text)
       IN  IF call.op = "add_task"
           THEN Finish(AddTaskBody(todo_lists, done_lists, r.name, call.task), c)
           ELSE Finish(OrderTaskBody(todo_lists, done_lists, r.name,
                                     call.num, call.new, r.msg), c)

\* The caller answers a yes/no prompt of select_option.
AnswerYesNo(response) ==
    /\ pc = "select_option"
    /\ LET v == SelectOption(response, TRUE) IN
       IF v = "retry"
       THEN /\ call.asked < MaxAsk
            /\ call' = [call EXCEPT !.answer = response, !.asked = @ + 1]
            /\ report' = Msg("invalid_yes_no", 0)
            /\ UNCHANGED <<todo_lists, done_lists, file, driver, pc>>
       ELSE LET c == [call EXCEPT !.answer = response] IN
            IF call.op = "add_task"
            THEN Finish(AddTaskBody(todo_lists, done_lists,
                                    IF v = "yes" THEN call.list_name ELSE <<>>,
                                    call.task), c)
            ELSE Finish(ClearDoneBody(todo_lists, done_lists, FALSE, v = "yes"), c)

DoneTask(list_name, task_number) ==
    /\ pc = "idle"
    /\ Finish(DoneTaskBody(todo_lists, done_lists, list_name, task_number),
              NewCall("done_task", list_name, <<>>, task_number, 0, FALSE))

RestoreTask(list_name, task_number) ==
    /\ pc = "idle"
    /\ Finish(RestoreTaskBody(todo_lists, done_lists, list_name, task_number),
              NewCall("restore_task", list_name, <<>>, task_number, 0, FALSE))

DoneList(list_name) ==
    /\ pc = "idle"
    /\ Finish(DoneListBody(todo_lists, done_lists, list_name),
              NewCall("done_list", list_name, <<>>, 0, 0, FALSE))

RestoreList(list_name) ==
    /\ pc = "idle"
    /\ Finish(RestoreListBody(todo_lists, done_lists, list_name),
              NewCall("restore_list", list_name, <<>>, 0, 0, FALSE))

ClearDone(force) ==
    /\ pc = "idle"
    /\ LET c == NewCall("clear_done", <<>>, <<>>, 0, 0, force) IN
       IF force
       THEN Finish(ClearDoneBody(todo_lists, done_lists, TRUE, FALSE), c)
       ELSE Block("select_option", c, NoReport)

\* The method has returned.  The script goes on to its next call on the same
\* object; the command-line process ends, and the next one starts with
\* TodoManager.__init__, which parses the file.
Return ==
    /\ pc = "returned"
    /\ pc' = "idle"
    /\ call' = NoCall
    /\ report' = NoReport
    /\ todo_lists' = IF driver = "cli" THEN ParseFile(file).todo ELSE todo_lists
    /\ done_lists' = IF driver = "cli" THEN ParseFile(file).done ELSE done_lists
    /\ UNCHANGED <<file, driver>>

Next ==
    \/ \E n \in NameArgs : AddList(n)
    \/ \E n \in NameArgs, t \in TaskArgs : AddTask(n, t)
    \/ \E n \in NameArgs, old \in PosArgs, new \in PosArgs : OrderTask(n, old, new)
    \/ \E text \in SelectionAnswers : AnswerSelection(text)
    \/ \E response \in YesNoAnswers : AnswerYesNo(response)
    \/ \E n \in NameArgs, k \in PosArgs : DoneTask(n, k)
    \/ \E n \in NameArgs, k \in PosArgs : RestoreTask(n, k)
    \/ \E n \in NameArgs : DoneList(n)
    \/ \E n \in NameArgs : RestoreList(n)
    \/ \E force \in BOOLEAN : ClearDone(force)
    \/ Return

Spec == Init /\ [][Next]_vars

SpecCli == InitCli /\ [][Next]_vars

(***************************************************************************)
(* order_task on its own: the object holds one Todo list "Work" with any   *)
(* tasks add_task can have put there, and is only asked to reorder it.     *)
(***************************************************************************)
InitOrder ==
    /\ driver = "lib"
    /\ file = NewFileText
    /\ \E k \in 0..MaxOrderLen : \E tasks \in [1..k -> OrderTaskArgs] :
           todo_lists = <<[name |-> WorkName, tasks |-> tasks]>>
    /\ done_lists = EmptySection
    /\ pc = "idle"
    /\ call = NoCall
    /\ report = NoReport

NextOrder ==
    \/ \E n \in NameArgs, old \in OrderPosArgs, new \in OrderPosArgs : OrderTask(n, old, new)
    \/ \E text \in SelectionAnswers : AnswerSelection(text)
    \/ Return

SpecOrder == InitOrder /\ [][NextOrder]_vars

(***************************************************************************)
(* Commands on a file that was edited by hand (edit_file, or any editor):  *)
(* the first process starts from a file that write_file did not write.     *)
(***************************************************************************)
SectionLine(name) == <<"#"," ">> \o name \o <<NL, NL>>
ListLine(name) == <<"#","#"," ">> \o name \o <<NL, NL>>
TaskLine(text) == <<"1",".", " ">> \o text \o <<NL, NL>>

\* a file as write_file leaves it, one with a task line above the first list
\* header, and one with a section that is neither Todo nor Done
EditedFiles ==
    { SectionLine(TODO_SECTION) \o ListLine(WorkName) \o TaskLine(<<"A">>)
          \o SectionLine(DONE_SECTION),
      SectionLine(TODO_SECTION) \o TaskLine(<<"B">>) \o ListLine(WorkName)
          \o TaskLine(<<"A">>) \o SectionLine(DONE_SECTION),
      SectionLine(TODO_SECTION) \o ListLine(WorkName) \o TaskLine(<<"A">>)
          \o SectionLine(<<"L","a","t","e","r">>) \o SectionLine(DONE_SECTION) }

InitEdited ==
    /\ driver = "cli"
    /\ file \in EditedFiles
    /\ todo_lists = ParseFile(file).todo
    /\ done_lists = ParseFile(file).done
    /\ pc = "idle"
    /\ call = NoCall
    /\ report = NoReport

\* the commands that validate a list name or a position
NextEdited ==
    \/ \E n \in NameArgs, old \in PosArgs, new \in PosArgs : OrderTask(n, old, new)
    \/ \E text \in SelectionAnswers : AnswerSelection(text)
    \/ \E n \in NameArgs, k \in PosArgs : DoneTask(n, k)
    \/ \E n \in NameArgs, k \in PosArgs : RestoreTask(n, k)
    \/ \E n \in NameArgs : DoneList(n)
    \/ \E n \in NameArgs : RestoreList(n)
    \/ Return

SpecEdited == InitEdited /\ [][NextEdited]_vars

(***************************************************************************)
(* A script that also calls add_list with quiet=True and that follows a    *)
(* call by a second one right after it has returned (as test_todo.py       *)
(* does); call then keeps the arguments and the entry snapshot of the      *)
(* first call, so that the state after the second call tells both.         *)
(***************************************************************************)
AddListQuiet(list_name) ==
    /\ pc = "idle"
    /\ Finish(AddListBody(todo_lists, done_lists, list_name, TRUE),
              NewCall("add_list_quiet", list_name, <<>>, 0, 0, FALSE))

\* done_task(list_name, n) has returned; restore_task(list_name, n) is called
RestoreSamePosition ==
    /\ pc = "returned"
    /\ call.op = "done_task"
    /\ Finish(RestoreTaskBody(todo_lists, done_lists, call.list_name, call.num),
              [call EXCEPT !.op = "done_task_restore_task"])

\* clear_done_list(force=True) has returned and is called again
ClearDoneAgain ==
    /\ pc = "returned"
    /\ call.op = "clear_done"
    /\ call.force
    /\ Finish(ClearDoneBody(todo_lists, done_lists, TRUE, FALSE),
              [call EXCEPT !.op = "clear_done_twice"])

NextScript ==
    \/ Next
    \/ \E n \in NameArgs : AddListQuiet(n)
    \/ RestoreSamePosition
    \/ ClearDoneAgain

SpecScript == Init /\ [][NextScript]_vars

(***************************************************************************)
(* parse_file on any file.  The process is in the loop over file_lines;    *)
(* one pass reads the next line of the file, which may be any of FileLines *)
(* (raw, before line.strip()).  call holds the loop's variables before    *)
(* (st0) and after (st) the pass; todo_lists and done_lists are what       *)
(* parse_file returns when the file ends here.  At the end of the file     *)
(* cli.main (command save) calls write_file(), and the next process        *)
(* parses what was written.                                                *)
(***************************************************************************)
MaxFileLines == 4

FileLines ==
    { <<"#"," ","T","o","d","o">>,
      <<"#"," "," ","D","o","n","e"," ">>,
      <<"#"," ","t","o","d","o">>,
      <<"#","#"," ","W","o","r","k">>,
      <<" ","#","#"," ","w","o">>,
      <<"1","."," ","A">>,
      <<"1","2","."," ","A">>,
      <<"B">>,
      <<"2",".","B">>,
      <<"1","."," "," ","1","."," ","A">>,
      <<"3","."," ","#","#"," ","w","o">>,
      <<>> }

\* the warning one pass of the loop prints, if any
ParseLineMsg(st, line) ==
    IF line = <<>> THEN NoReport
    ELSE IF StartsWith(line, <<"#"," ">>)
    THEN IF Strip(DropFirst(line, 2)) \in {TODO_SECTION, DONE_SECTION}
         THEN NoReport ELSE Msg("unknown_section", 0)
    ELSE IF StartsWith(line, <<"#","#"," ">>) THEN NoReport
    ELSE IF ~HasList(CurrentSection(st), st.list_name)
         THEN Msg("task_without_list", 0) ELSE NoReport

InitParse ==
    /\ driver = "cli"
    /\ file = <<>>
    /\ todo_lists = ParseStart.todo
    /\ done_lists = ParseStart.done
    /\ pc = "parse_file"
    /\ call = [op |-> "parse_file", line_no |-> 0, line |-> <<>>,
               st0 |-> ParseStart, st |-> ParseStart,
               todo0 |-> <<>>, done0 |-> <<>>]
    /\ report = NoReport

\* one pass of the loop, on the line the file holds next
ReadLine(line) ==
    /\ pc = "parse_file"
    /\ call.line_no < MaxFileLines
    /\ LET st == ParseLine(call.st, Strip(line)) IN
       /\ call' = [call EXCEPT !.line_no = @ + 1, !.line = line,
                               !.st0 = call.st, !.st = st]
       /\ todo_lists' = st.todo
       /\ done_lists' = st.done
       /\ report' = ParseLineMsg(call.st, Strip(line))
    /\ file' = file \o line \o <<NL>>
    /\ UNCHANGED <<driver, pc>>

\* the file ends: parse_file returns, cli.main (command save) writes the file
SaveFile ==
    /\ pc = "parse_file"
    /\ file' = WriteFileText(todo_lists, done_lists)
    /\ call' = [call EXCEPT !.op = "write_file",
                            !.todo0 = todo_lists, !.done0 = done_lists]
    /\ report' = Msg("saved", 0)
    /\ pc' = "returned"
    /\ UNCHANGED <<todo_lists, done_lists, driver>>

\* the next process parses the file that was written
ParseAgain ==
    /\ pc = "returned"
    /\ call.op = "write_file"
    /\ todo_lists' = ParseFile(file).todo
    /\ done_lists' = ParseFile(file).done
    /\ call' = [call EXCEPT !.op = "write_file_parse_file"]
    /\ report' = NoReport
    /\ pc' = "idle"
    /\ UNCHANGED <<file, driver>>

NextParse ==
    \/ \E line \in FileLines : ReadLine(line)
    \/ SaveFile
    \/ ParseAgain

SpecParse == InitParse /\ [][NextParse]_vars

(***************************************************************************)
(* Two command-line processes on the same file (cli.main twice, nothing    *)
(* orders them).  Here todo_lists, done_lists, pc, call and report hold    *)
(* one value per process.  Each process parses the file, runs its command  *)
(* on its own TodoManager and calls write_file(), which is two steps for   *)
(* the file system: open(path, "w") truncates the file, and the text, kept *)
(* in the handle's buffer until then, is written from offset 0 of the      *)
(* handle when the with-block closes it.                                   *)
(***************************************************************************)
Procs == {1, 2}

\* the file both processes find: Todo holds Work = [A]
RaceFile == WriteFileText(<<[name |-> WorkName, tasks |-> <<<<"A">>>>]>>, EmptySection)

\* the commands, with names that need no prompt
RaceCommands ==
    [op : {"add_list"}, list_name : {WorkName, QueryName}, task : {<<>>}, num : {0}]
    \cup [op : {"add_task"}, list_name : {WorkName}, task : {<<"B">>}, num : {0}]
    \cup [op : {"done_task", "restore_task"}, list_name : {WorkName}, task : {<<>>}, num : {1, 2}]
    \cup [op : {"done_list", "restore_list"}, list_name : {WorkName}, task : {<<>>}, num : {0}]
    \cup [op : {"clear_done"}, list_name : {<<>>}, task : {<<>>}, num : {0}]

\* the method cli.main calls for a command, on the process's own model
RaceOutcome(todo, done, c) ==
    IF c.op = "add_list" THEN AddListBody(todo, done, c.list_name, FALSE)
    ELSE IF c.op = "add_task" THEN AddTaskBody(todo, done, c.list_name, c.task)
    ELSE IF c.op = "done_task" THEN DoneTaskBody(todo, done, c.list_name, c.num)
    ELSE IF c.op = "restore_task" THEN RestoreTaskBody(todo, done, c.list_name, c.num)
    ELSE IF c.op = "done_list" THEN DoneListBody(todo, done, c.list_name)
    ELSE IF c.op = "restore_list" THEN RestoreListBody(todo, done, c.list_name)
    ELSE ClearDoneBody(todo, done, TRUE, FALSE)

\* a file of content old after text was written to it from offset 0
Overwritten(old, text) == text \o SubSeq(old, Len(text) + 1, Len(old))

\* some process has opened the file for writing
WritingBegun == \E q \in Procs : pc[q] \in {"write_file", "exited"}

InitRace ==
    /\ driver = "cli"
    /\ file = RaceFile
    /\ todo_lists = [p \in Procs |-> EmptySection]
    /\ done_lists = [p \in Procs |-> EmptySection]
    /\ pc = [p \in Procs |-> "start"]
    /\ call = [p \in Procs |->
                 [op |-> "none", list_name |-> <<>>, task |-> <<>>, num |-> 0,
                  todo0 |-> <<>>, done0 |-> <<>>, fresh |-> FALSE, closed |-> 0]]
    /\ report = [p \in Procs |-> NoReport]

\* TodoManager(...): parse_file on the file as it is now
RaceParse(p) ==
    /\ pc[p] = "start"
    /\ todo_lists' = [todo_lists EXCEPT ![p] = ParseFile(file).todo]
    /\ done_lists' = [done_lists EXCEPT ![p] = ParseFile(file).done]
    /\ call' = [call EXCEPT ![p].fresh = ~WritingBegun]
    /\ pc' = [pc EXCEPT ![p] = "idle"]
    /\ UNCHANGED <<file, driver, report>>

\* the command's method runs to its end
RaceRun(p, c) ==
    /\ pc[p] = "idle"
    /\ LET o == RaceOutcome(todo_lists[p], done_lists[p], c) IN
       /\ todo_lists' = [todo_lists EXCEPT ![p] = o.todo]
       /\ done_lists' = [done_lists EXCEPT ![p] = o.done]
       /\ report' = [report EXCEPT ![p] = o.msg]
    /\ call' = [call EXCEPT ![p].op = c.op, ![p].list_name = c.list_name,
                            ![p].task = c.task, ![p].num = c.num,
                            ![p].todo0 = todo_lists[p], ![p].done0 = done_lists[p]]
    /\ pc' = [pc EXCEPT ![p] = "returned"]
    /\ UNCHANGED <<file, driver>>

\* write_file: open(self.file_path, "w") truncates the file
RaceOpen(p) ==
    /\ pc[p] = "returned"
    /\ file' = <<>>
    /\ pc' = [pc EXCEPT ![p] = "write_file"]
    /\ UNCHANGED <<todo_lists, done_lists, driver, call, report>>

\* write_file: the with-block ends, the buffered text reaches the file
RaceClose(p) ==
    /\ pc[p] = "write_file"
    /\ file' = Overwritten(file, WriteFileText(todo_lists[p], done_lists[p]))
    /\ call' = [call EXCEPT ![p].closed = 1 + Cardinality({q \in Procs : pc[q] = "exited"})]
    /\ pc' = [pc EXCEPT ![p] = "exited"]
    /\ UNCHANGED <<todo_lists, done_lists, driver, report>>

NextRace ==
    \/ \E p \in Procs : RaceParse(p)
    \/ \E p \in Procs, c \in RaceCommands : RaceRun(p, c)
    \/ \E p \in Procs : RaceOpen(p)
    \/ \E p \in Procs : RaceClose(p)

SpecRace == InitRace /\ [][NextRace]_vars

(***************************************************************************)
(* One command-line process started when the todo file does not exist:     *)
(* parse_file raises FileNotFoundError and _initialize_file offers to      *)
(* create the file; whatever the answer, TodoManager(...) returns and      *)
(* cli.main goes on to the command.                                        *)
(***************************************************************************)
\* the value of file while the path does not exist
NoFile == <<"FileNotFoundError">>

InitMissing ==
    /\ driver = "cli"
    /\ file = NoFile
    /\ todo_lists = EmptySection
    /\ done_lists = EmptySection
    /\ pc = "initialize_file"
    /\ call = Asking(NewCall("initialize_file", <<>>, <<>>, 0, 0, FALSE), "select_option")
    /\ report = Msg("file_not_found", 0)

\* the user answers "Create a new todo file?"
AnswerCreate(response) ==
    /\ pc = "initialize_file"
    /\ LET v == SelectOption(response, TRUE) IN
       IF v = "retry"
       THEN /\ call.asked < MaxAsk
            /\ call' = [call EXCEPT !.answer = response, !.asked = @ + 1]
            /\ report' = Msg("invalid_yes_no", 0)
            /\ UNCHANGED <<todo_lists, done_lists, file, driver, pc>>
       ELSE /\ file' = IF v = "yes" THEN NewFileText ELSE file
            /\ todo_lists' = IF v = "yes" THEN ParseFile(NewFileText).todo ELSE todo_lists
            /\ done_lists' = IF v = "yes" THEN ParseFile(NewFileText).done ELSE done_lists
            /\ report' = IF v = "yes" THEN Msg("created_file", 0)
                         ELSE Msg("exiting_without_file", 0)
            /\ call' = [call EXCEPT !.answer = response]
            /\ pc' = "idle"
            /\ UNCHANGED driver

\* the one command of the process
NextMissing ==
    \/ \E response \in YesNoAnswers : AnswerCreate(response)
    \/ \E n \in NameArgs : AddList(n)
    \/ \E n \in NameArgs, t \in TaskArgs : AddTask(n, t)
    \/ \E n \in NameArgs, old \in PosArgs, new \in PosArgs : OrderTask(n, old, new)
    \/ \E response \in YesNoAnswers : AnswerYesNo(response)
    \/ \E n \in NameArgs, k \in PosArgs : DoneTask(n, k)
    \/ \E n \in NameArgs, k \in PosArgs : RestoreTask(n, k)
    \/ \E n \in NameArgs : DoneList(n)
    \/ \E n \in NameArgs : RestoreList(n)
    \/ \E force \in BOOLEAN : ClearDone(force)

SpecMissing == InitMissing /\ [][NextMissing]_vars

(***************************************************************************)
(* A script that only adds, orders and moves tasks and moves lists, under  *)
(* the names Work and wo.                                                  *)
(***************************************************************************)
MoveNameArgs == {WorkName, QueryName}

NextMoves ==
    \/ \E n \in MoveNameArgs, t \in TaskArgs : AddTask(n, t)
    \/ \E n \in MoveNameArgs, old \in 1..MaxTasks, new \in 1..MaxTasks : OrderTask(n, old, new)
    \/ \E text \in SelectionAnswers : AnswerSelection(text)
    \/ \E response \in YesNoAnswers : AnswerYesNo(response)
    \/ \E n \in MoveNameArgs, k \in 0..MaxTasks : DoneTask(n, k)
    \/ \E n \in MoveNameArgs, k \in 0..MaxTasks : RestoreTask(n, k)
    \/ \E n \in MoveNameArgs : DoneList(n)
    \/ \E n \in MoveNameArgs : RestoreList(n)
    \/ Return

SpecMoves == Init /\ [][NextMoves]_vars

(***************************************************************************)
(* Vocabulary of the properties.  A property about a method is read off in *)
(* the state where the method has just returned: call holds its arguments  *)
(* and the sections as they were on entry (todo0, done0).                  *)
(***************************************************************************)
Returned(op) == pc = "returned" /\ call.op = op

ModelUnchanged == todo_lists = call.todo0 /\ done_lists = call.done0

InRange(k, tasks) == 1 <= k /\ k <= Len(tasks)

\* the tasks of a list, none if the section has no such list
TasksOrNone(sec, name) == IF HasList(sec, name) THEN TasksOf(sec, name) ELSE <<>>

\* a sequence with its i-th element left out
Without(seq, i) == [j \in 1..(Len(seq) - 1) |-> IF j < i THEN seq[j] ELSE seq[j + 1]]

Occurrences(seq, t) == Cardinality({i \in 1..Len(seq) : seq[i] = t})

\* The n-th task of src0[name] has left for the end of dst[name].
MovedNth(src0, dst0, src, dst, name, n) ==
    /\ HasList(src, name)
    /\ TasksOf(src, name) = Without(TasksOf(src0, name), n)
    /\ HasList(dst, name)
    /\ TasksOf(dst, name) = TasksOrNone(dst0, name) \o <<TasksOf(src0, name)[n]>>

\* Whole list name has left src0 for dst.
MovedList(src0, src, dst, name) ==
    /\ ~HasList(src, name)
    /\ HasList(dst, name)
    /\ TasksOf(dst, name) = TasksOf(src0, name)

\* a yes/no answer that is neither a yes nor a no
YesNoInvalid(answer) ==
    Lower(Strip(answer)) \notin {<<"y">>, <<"y","e","s">>, <<"n">>, <<"n","o">>}

YesNoDeclines(answer) == Lower(Strip(answer)) \in {<<"n">>, <<"n","o">>}

\* a selection that picks neither 0 nor one of the n candidates
SelectionInvalid(answer, n) ==
    \/ Strip(answer) = <<>>
    \/ ~StrToInt(answer).ok
    \/ StrToInt(answer).val < 0
    \/ StrToInt(answer).val > n

Candidates(c) == MatchListName(c.todo0, c.list_name)

(***************************************************************************)
(* C1  Round trip: the model that write_file wrote is the model that       *)
(* parse_file reads back, list names and task texts in the same order in   *)
(* both sections (no name or text of the model holds a newline).           *)
(***************************************************************************)
C1_RoundTrip ==
    (driver = "cli" /\ pc = "returned" /\ file = WriteFileText(todo_lists, done_lists))
        => /\ ParseFile(file).todo = todo_lists
           /\ ParseFile(file).done = done_lists

FailingMove ==
    \/ /\ Returned("done_task")
       /\ \/ ~HasList(call.todo0, call.list_name)
          \/ ~InRange(call.num, TasksOf(call.todo0, call.list_name))
    \/ /\ Returned("restore_task")
       /\ \/ ~HasList(call.done0, call.list_name)
          \/ ~InRange(call.num, TasksOf(call.done0, call.list_name))
    \/ Returned("done_list") /\ ~HasList(call.todo0, call.list_name)
    \/ Returned("restore_list") /\ ~HasList(call.done0, call.list_name)

C3_FailedMoveChangesNothing == FailingMove => ModelUnchanged

C3_Witness ==
    /\ Returned("restore_task")
    /\ HasList(call.done0, call.list_name)
    /\ TasksOf(call.done0, call.list_name) # <<>>
    /\ call.num < 1
    /\ report = Msg("invalid_task_number", call.num)

(***************************************************************************)
(* C4  order_task(list, old, new) with old or new outside [1, len(list)]   *)
(* changes nothing and reports the offending bound: the old position when  *)
(* it is invalid, the new one when only the new one is.                    *)
(***************************************************************************)
C4_OrderBoundsReported ==
    (Returned("order_task") /\ HasList(call.todo0, call.list_name)
        /\ \/ ~InRange(call.num, TasksOf(call.todo0, call.list_name))
           \/ ~InRange(call.new, TasksOf(call.todo0, call.list_name)))
    => /\ ModelUnchanged
       /\ report = IF ~InRange(call.num, TasksOf(call.todo0, call.list_name))
                   THEN Msg("invalid_task_number", call.num)
                   ELSE Msg("invalid_new_task_number", call.new)

(***************************************************************************)
(* C5  order_task(list, old, new) with both positions in [1, len] puts the *)
(* task that was at old at new, keeps every other task in the same         *)
(* relative order, and keeps the length and the multiset of the list;      *)
(* [A, B, C] with order_task(3, 1) becomes [C, A, B].                      *)
(***************************************************************************)
C5_OrderTaskMoves ==
    (Returned("order_task") /\ HasList(call.todo0, call.list_name)
        /\ InRange(call.num, TasksOf(call.todo0, call.list_name))
        /\ InRange(call.new, TasksOf(call.todo0, call.list_name)))
    => LET before == TasksOf(call.todo0, call.list_name)
           after == TasksOrNone(todo_lists, call.list_name)
       IN  /\ HasList(todo_lists, call.list_name)
           /\ Len(after) = Len(before)
           /\ after[call.new] = before[call.num]
           /\ Without(after, call.new) = Without(before, call.num)
           /\ \A t \in OrderTaskArgs \cup TaskArgs :
                  Occurrences(after, t) = Occurrences(before, t)
           /\ (before = <<<<"A">>, <<"B">>, <<"C">>>> /\ call.num = 3 /\ call.new = 1)
                  => after = <<<<"C">>, <<"A">>, <<"B">>>>

C5_Witness ==
    /\ Returned("order_task")
    /\ call.list_name = WorkName
    /\ call.todo0 = <<[name |-> WorkName, tasks |-> <<<<"A">>, <<"B">>, <<"C">>>>]>>
    /\ call.num = 3
    /\ call.new = 1
    /\ todo_lists = <<[name |-> WorkName, tasks |-> <<<<"C">>, <<"A">>, <<"B">>>>]>>

(***************************************************************************)
(* C6  done_list(name) with name in Todo removes name from Todo and leaves *)
(* Done[name] equal to the former Todo[name], same tasks in the same       *)
(* order; restore_list does the same from Done to Todo.                    *)
(***************************************************************************)
C6_MoveListWhole ==
    /\ (Returned("done_list") /\ HasList(call.todo0, call.list_name))
        => MovedList(call.todo0, todo_lists, done_lists, call.list_name)
    /\ (Returned("restore_list") /\ HasList(call.done0, call.list_name))
        => MovedList(call.done0, done_lists, todo_lists, call.list_name)

C6_Witness ==
    /\ Returned("restore_list")
    /\ HasList(call.done0, call.list_name)
    /\ Len(TasksOf(call.done0, call.list_name)) = 2
    /\ TasksOf(todo_lists, call.list_name)[1] # TasksOf(todo_lists, call.list_name)[2]

(***************************************************************************)
(* C7  When the destination section already holds a list of that name,     *)
(* done_list and restore_list replace its whole task sequence by the moved *)
(* list's: the tasks it held are gone from the model, not merged.          *)
(***************************************************************************)
Replaced(src0, dst0, dst, name) ==
    /\ TasksOf(dst, name) = TasksOf(src0, name)
    /\ TotalTasks = CountTasks(call.todo0) + CountTasks(call.done0)
                        - Len(TasksOf(dst0, name))

C7_MoveListReplaces ==
    /\ (Returned("done_list") /\ HasList(call.todo0, call.list_name)
            /\ HasList(call.done0, call.list_name))
        => Replaced(call.todo0, call.done0, done_lists, call.list_name)
    /\ (Returned("restore_list") /\ HasList(call.done0, call.list_name)
            /\ HasList(call.todo0, call.list_name))
        => Replaced(call.done0, call.todo0, todo_lists, call.list_name)

C7_Witness ==
    /\ Returned("done_list")
    /\ HasList(call.todo0, call.list_name)
    /\ HasList(call.done0, call.list_name)
    /\ TasksOf(call.done0, call.list_name) # <<>>
    /\ TasksOf(call.todo0, call.list_name) # <<>>
    /\ TasksOf(call.done0, call.list_name) # TasksOf(call.todo0, call.list_name)

(***************************************************************************)
(* C8  add_task(list_name, task) whose name resolution yields a name r     *)
(* (list_name itself, with no prompt, whenever list_name is a Todo list)   *)
(* leaves r in Todo with task as its last task and the tasks r held before *)
(* unchanged ahead of it; with no lists and creation confirmed the result  *)
(* is Todo = {list_name: [task]}.                                          *)
(***************************************************************************)
\* the name the resolution of an add_task call has yielded, <<>> for none
ResolvedName(c) ==
    IF HasList(c.todo0, c.list_name) THEN c.list_name
    ELSE IF c.prompt = "select_option"
    THEN (IF SelectOption(c.answer, TRUE) = "yes" THEN c.list_name ELSE <<>>)
    ELSE CheckSelection(c.todo0, c.list_name, FALSE, c.answer).name

YieldsName(c) == HasList(c.todo0, c.list_name) \/ ResolvedName(c) # <<>>

C8_AddTaskAppends ==
    (Returned("add_task") /\ YieldsName(call))
    => LET r == ResolvedName(call) IN
       /\ HasList(call.todo0, call.list_name) => call.prompt = "none"
       /\ HasList(todo_lists, r)
       /\ TasksOrNone(todo_lists, r) = TasksOrNone(call.todo0, r) \o <<call.task>>
       /\ (call.todo0 = <<>> /\ call.done0 = <<>>)
              => /\ todo_lists = <<[name |-> call.list_name, tasks |-> <<call.task>>]>>
                 /\ done_lists = <<>>

(***************************************************************************)
(* C9  On every prompt of the core (creation confirmation of add_task,     *)
(* confirmation of clear_done without force, numbered selection) an empty  *)
(* or invalid response aborts the operation with no change to Todo or      *)
(* Done, and the prompt is not asked again.                                *)
(***************************************************************************)
EmptyOrInvalidAnswer(c) ==
    IF c.prompt = "select_option" THEN YesNoInvalid(c.answer)
    ELSE SelectionInvalid(c.answer, Len(Candidates(c)))

C9_PromptAborts ==
    /\ call.asked <= 1
    /\ (pc = "returned" /\ call.prompt # "none" /\ EmptyOrInvalidAnswer(call))
           => ModelUnchanged

(***************************************************************************)
(* C10  When name resolution yields no usable name (the user declines      *)
(* creation, or gives an empty, non-numeric or out-of-range selection),    *)
(* add_task creates no list and adds no task in either section.            *)
(***************************************************************************)
NoUsableName(c) ==
    \/ c.prompt = "select_option" /\ YesNoDeclines(c.answer)
    \/ c.prompt = "input" /\ SelectionInvalid(c.answer, Len(Candidates(c)))

C10_AddTaskNoName ==
    (Returned("add_task") /\ NoUsableName(call)) => ModelUnchanged

C10_Witness ==
    /\ Returned("add_task")
    /\ call.prompt = "input"
    /\ StrToInt(call.answer).ok
    /\ StrToInt(call.answer).val > Len(Candidates(call))
    /\ report = Msg("cancelled", 0)

(***************************************************************************)
(* C11  With N >= 1 candidates the answer to the numbered selection maps   *)
(* as follows: 0 resolves to the query itself where the operation may      *)
(* create a list (add_task, not order_task); k in 1..N resolves to the     *)
(* k-th candidate; every other answer (out of range, negative, not a       *)
(* number, empty) resolves to nothing and the operation changes nothing.   *)
(***************************************************************************)
\* the number an answer stands for; none for an empty or non-numeric answer
AnswerNumber(answer) ==
    IF Strip(answer) # <<>> /\ StrToInt(answer).ok
    THEN {StrToInt(answer).val} ELSE {}

C11_SelectionResolves ==
    (pc = "returned" /\ call.prompt = "input")
    => LET cands == Candidates(call)
           may_create == call.op = "add_task"
           resolved == CheckSelection(call.todo0, call.list_name, ~may_create,
                                      call.answer).name
           number == AnswerNumber(call.answer)
       IN  /\ Len(cands) >= 1
           /\ (number = {0} /\ may_create) => resolved = call.list_name
           /\ \A k \in 1..Len(cands) : number = {k} =>
                  /\ resolved = cands[k]
                  /\ may_create =>
                         TasksOf(todo_lists, cands[k])
                             = TasksOf(call.todo0, cands[k]) \o <<call.task>>
           /\ (number \cap (0..Len(cands)) = {} \/ (number = {0} /\ ~may_create))
                  => resolved = <<>> /\ ModelUnchanged

C11_Witness ==
    /\ Returned("add_task")
    /\ call.prompt = "input"
    /\ Len(Candidates(call)) = 2
    /\ AnswerNumber(call.answer) = {2}
    /\ TasksOf(todo_lists, Candidates(call)[2])
           = TasksOf(call.todo0, Candidates(call)[2]) \o <<call.task>>
    /\ TasksOf(todo_lists, Candidates(call)[1]) = TasksOf(call.todo0, Candidates(call)[1])

(***************************************************************************)
(* C12  When the query is not exactly a Todo list name, the candidates     *)
(* offered are exactly the Todo list names that contain the query as a     *)
(* substring, letter case ignored, numbered 1..N in Todo insertion order;  *)
(* a name that only Done holds is never a candidate.  These conditions fix *)
(* the candidates and their numbers given the Todo names and the query.    *)
(***************************************************************************)
\* the same character, or the upper and the lower case of one letter
SameLetter(a, b) ==
    \/ a = b
    \/ \E i \in 1..Len(UpperChars) : {a, b} = {UpperChars[i], LowerChars[i]}

ContainsIgnoringCase(name, query) ==
    \E i \in 0..(Len(name) - Len(query)) :
        \A j \in 1..Len(query) : SameLetter(name[i + j], query[j])

C12_CandidatesOffered ==
    (call.op \in {"add_task", "order_task"} /\ ~HasList(call.todo0, call.list_name))
    => LET cands == Candidates(call)
           todo == call.todo0
       IN  /\ \A k \in 1..Len(cands) :
                  /\ HasList(todo, cands[k])
                  /\ ContainsIgnoringCase(cands[k], call.list_name)
           /\ \A i \in 1..Len(todo) :
                  ContainsIgnoringCase(todo[i].name, call.list_name)
                      => \E k \in 1..Len(cands) : cands[k] = todo[i].name
           /\ \A k, l \in 1..Len(cands) :
                  k < l => IndexOf(todo, cands[k]) < IndexOf(todo, cands[l])
           /\ (call.prompt = "input") <=> (cands # <<>>)

C12_Witness ==
    /\ pc = "input"
    /\ call.op = "add_task"
    /\ Len(Candidates(call)) = 1
    /\ \E i \in 1..Len(call.done0) :
           /\ ContainsIgnoringCase(call.done0[i].name, call.list_name)
           /\ ~HasList(call.todo0, call.done0[i].name)

(***************************************************************************)
(* C13  order_task never creates or removes a list: whatever the list      *)
(* name, the two positions and the answer to its prompt (0 too), the Todo  *)
(* list names and the whole Done section are after the call what they were *)
(* before it; it never offers to create a list.                            *)
(***************************************************************************)
C13_OrderTaskKeepsLists ==
    call.op = "order_task"
    => /\ ListNames(todo_lists) = ListNames(call.todo0)
       /\ done_lists = call.done0
       /\ call.prompt # "select_option"

C13_Witness ==
    /\ Returned("order_task")
    /\ call.prompt = "input"
    /\ AnswerNumber(call.answer) = {0}
    /\ ~HasList(todo_lists, call.list_name)
    /\ call.done0 # <<>>

(***************************************************************************)
(* C14  A command that fails validation (absent list, position out of      *)
(* range) leaves the todo file as it was, whatever file the process        *)
(* started from, hand-edited files with orphan task lines or unknown       *)
(* sections included.                                                      *)
(***************************************************************************)
FailedValidation ==
    \/ FailingMove
    \/ /\ Returned("order_task")
       /\ \/ /\ HasList(call.todo0, call.list_name)
             /\ call.list_name # <<>>
             /\ \/ ~InRange(call.num, TasksOf(call.todo0, call.list_name))
                \/ ~InRange(call.new, TasksOf(call.todo0, call.list_name))
          \/ /\ ~HasList(call.todo0, call.list_name)
             /\ Candidates(call) = <<>>

C14_FailedCommandKeepsFile ==
    [][(driver = "cli" /\ pc = "idle" /\ pc' = "returned" /\ FailedValidation')
           => file' = file]_vars

(***************************************************************************)
(* C15  clear_done without force empties Done only when the caller         *)
(* explicitly confirms; when the caller declines, Done keeps the lists and *)
(* tasks it had; Todo is unchanged in both cases.                          *)
(***************************************************************************)
YesNoConfirms(answer) == Lower(Strip(answer)) \in {<<"y">>, <<"y","e","s">>}

C15_ClearDoneOnlyConfirmed ==
    (Returned("clear_done") /\ ~call.force)
    => /\ todo_lists = call.todo0
       /\ YesNoConfirms(call.answer) => done_lists = <<>>
       /\ ~YesNoConfirms(call.answer) => done_lists = call.done0

(***************************************************************************)
(* C16  clear_done(force=True) leaves Done with no lists whatever it held, *)
(* asks nothing, and is idempotent: called a second time right after, it   *)
(* again leaves Done empty and reports success, not an error; Todo is      *)
(* after both calls what it was before the first.                          *)
(***************************************************************************)
C16_ForcedClearIdempotent ==
    ((call.op = "clear_done" /\ call.force) \/ call.op = "clear_done_twice")
    => /\ pc = "returned"
       /\ call.prompt = "none"
       /\ done_lists = <<>>
       /\ todo_lists = call.todo0
       /\ report = Msg("cleared_all", 0)

C16_Witness ==
    /\ Returned("clear_done_twice")
    /\ call.done0 # <<>>
    /\ call.todo0 # <<>>
    /\ done_lists = <<>>

(***************************************************************************)
(* C17  Move conservation.  As stated: done_task(list, n) followed by      *)
(* restore_task(list, n) on the same position returns the task that        *)
(* done_task moved to its Todo list, where it is the last task.            *)
(***************************************************************************)
\* done_task(list, n), the first call of the pair, has moved a task
PairMoved ==
    /\ Returned("done_task_restore_task")
    /\ HasList(call.todo0, call.list_name)
    /\ InRange(call.num, TasksOf(call.todo0, call.list_name))

\* the task done_task moved is back as the last task of its Todo list
MovedTaskIsBack ==
    /\ HasList(todo_lists, call.list_name)
    /\ TasksOf(todo_lists, call.list_name)
           = Without(TasksOf(call.todo0, call.list_name), call.num)
                 \o <<TasksOf(call.todo0, call.list_name)[call.num]>>

C17_MoveConservation == PairMoved => MovedTaskIsBack

(***************************************************************************)
(* C17 as it holds: the pair returns the moved task exactly when           *)
(* Done[list] held n - 1 tasks before done_task, so that the moved task    *)
(* sits at position n of Done[list]; Done[list] is then what it was.  When *)
(* Done[list] held n tasks or more, restore_task(list, n) moves back the   *)
(* task that was at position n of Done[list]; when it held fewer than      *)
(* n - 1, restore_task fails; in both cases the moved task is the last     *)
(* task of Done[list].                                                     *)
(***************************************************************************)
C17_MoveConservationAmended ==
    PairMoved
    => LET l == call.list_name
           n == call.num
           t0 == TasksOf(call.todo0, l)
           d0 == TasksOrNone(call.done0, l)
       IN  /\ HasList(todo_lists, l) /\ HasList(done_lists, l)
           /\ Len(d0) = n - 1
                  => MovedTaskIsBack /\ TasksOf(done_lists, l) = d0
           /\ Len(d0) >= n
                  => /\ TasksOf(todo_lists, l) = Without(t0, n) \o <<d0[n]>>
                     /\ TasksOf(done_lists, l) = Without(d0, n) \o <<t0[n]>>
           /\ Len(d0) < n - 1
                  => /\ TasksOf(todo_lists, l) = Without(t0, n)
                     /\ TasksOf(done_lists, l) = d0 \o <<t0[n]>>
                     /\ report = Msg("invalid_task_number", n)

C17_Witness ==
    /\ PairMoved
    /\ call.num = 1
    /\ Len(TasksOf(call.todo0, call.list_name)) = 2
    /\ TasksOrNone(call.done0, call.list_name) = <<>>
    /\ TasksOf(todo_lists, call.list_name)[2] = TasksOf(call.todo0, call.list_name)[1]
    /\ TasksOf(todo_lists, call.list_name)[1] # TasksOf(todo_lists, call.list_name)[2]

(***************************************************************************)
(* C18  add_list(name) adds name to Todo, last and with no tasks, when     *)
(* name is not in Todo; when name is in Todo it changes nothing, so the    *)
(* tasks of the existing list are kept, with quiet and without; Done is    *)
(* never changed and no call fails (none reports an error or asks).        *)
(***************************************************************************)
C18_AddListNeverOverwrites ==
    call.op \in {"add_list", "add_list_quiet"}
    => /\ pc = "returned"
       /\ call.prompt = "none"
       /\ done_lists = call.done0
       /\ IF HasList(call.todo0, call.list_name)
          THEN todo_lists = call.todo0
          ELSE todo_lists = call.todo0 \o <<[name |-> call.list_name, tasks |-> <<>>]>>
       /\ report = IF call.op = "add_list_quiet" THEN NoReport
                   ELSE IF HasList(call.todo0, call.list_name)
                   THEN Msg("list_exists", 0)
                   ELSE Msg("added_list", 0)

C18_Witness ==
    /\ Returned("add_list_quiet")
    /\ HasList(call.todo0, call.list_name)
    /\ TasksOf(todo_lists, call.list_name) # <<>>
    /\ done_lists # <<>>

(***************************************************************************)
(* C19  An empty list persists: after done_task or restore_task has taken  *)
(* the last task of a list, the list is still in the source section, with  *)
(* no tasks; and an empty list leaves its section only by done_list or     *)
(* restore_list on its name, or, in Done, by clear_done.                   *)
(***************************************************************************)
\* done_task or restore_task has just taken the only task of its list
TookLastTask ==
    \/ /\ Returned("done_task")
       /\ HasList(call.todo0, call.list_name)
       /\ Len(TasksOf(call.todo0, call.list_name)) = 1
       /\ call.num = 1
    \/ /\ Returned("restore_task")
       /\ HasList(call.done0, call.list_name)
       /\ Len(TasksOf(call.done0, call.list_name)) = 1
       /\ call.num = 1

SourceListEmpty ==
    LET source == IF call.op = "done_task" THEN todo_lists ELSE done_lists IN
    HasList(source, call.list_name) /\ TasksOf(source, call.list_name) = <<>>

EmptyLists(sec) == {sec[i].name : i \in {j \in 1..Len(sec) : sec[j].tasks = <<>>}}

C19_EmptyListPersists ==
    [][/\ TookLastTask' => SourceListEmpty'
       /\ \A name \in EmptyLists(todo_lists) :
              ~HasList(todo_lists', name)
                  => Returned("done_list")' /\ call'.list_name = name
       /\ \A name \in EmptyLists(done_lists) :
              ~HasList(done_lists', name)
                  => \/ Returned("restore_list")' /\ call'.list_name = name
                     \/ Returned("clear_done")']_vars

C19_Witness ==
    /\ TookLastTask
    /\ call.op = "restore_task"
    /\ SourceListEmpty
    /\ TasksOf(todo_lists, call.list_name) # <<>>

(***************************************************************************)
(* C20  In every state reached from a parsed file by add_list, add_task,   *)
(* order_task, done/restore and clear_done calls with any string           *)
(* arguments, every list name of Todo and Done is a non-empty string and   *)
(* every task is a non-empty text.                                         *)
(***************************************************************************)
NonEmptyLabels(sec) ==
    \A i \in 1..Len(sec) :
        /\ sec[i].name # <<>>
        /\ \A j \in 1..Len(sec[i].tasks) : sec[i].tasks[j] # <<>>

C20_LabelsNonEmpty == NonEmptyLabels(todo_lists) /\ NonEmptyLabels(done_lists)

(***************************************************************************)
(* Vocabulary of the properties about parse_file: the pass of the loop     *)
(* that has just run read call.line with the loop's variables at call.st0. *)
(***************************************************************************)
JustRead == pc = "parse_file" /\ call.line_no >= 1

SectionHeader(line) == StartsWith(Strip(line), <<"#"," ">>)

ListHeader(line) == StartsWith(Strip(line), <<"#","#"," ">>)

\* a non-blank line that is neither a section header nor a list header
TaskLineRead(line) ==
    Strip(line) # <<>> /\ ~SectionHeader(line) /\ ~ListHeader(line)

\* the places of a leading "digits, period, space" marker's period
MarkerEnds(s) ==
    {k \in 1..Len(s) :
        /\ k >= 2 /\ k < Len(s)
        /\ \A i \in 1..(k - 1) : IsDigit(s[i])
        /\ s[k] = "." /\ s[k + 1] = " "}

\* the task text of a task line
TextOfTaskLine(line) ==
    LET s == Strip(line) IN
    IF MarkerEnds(s) = {} THEN s
    ELSE DropFirst(s, 1 + CHOOSE k \in MarkerEnds(s) : TRUE)

\* the lines read before the last one, trimmed
LinesBefore == LET all == SplitLines(file) IN SubSeq(all, 1, Len(all) - 1)

\* the places of the list headers among lines
HeaderPlaces(lines) == {i \in 1..Len(lines) : ListHeader(lines[i])}

LastHeaderPlace(lines) ==
    CHOOSE i \in HeaderPlaces(lines) : \A j \in HeaderPlaces(lines) : j <= i

\* the section ("todo", "done", or "none" before any section header) in
\* which the most recent list header opened its list, and the list's name
LastOpenedSection(lines) ==
    ParseLines(ParseStart, SubSeq(lines, 1, LastHeaderPlace(lines))).current

LastOpenedName(lines) ==
    ParseLines(ParseStart, SubSeq(lines, 1, LastHeaderPlace(lines))).list_name

WithTaskAppended(sec, name, text) ==
    SetList(sec, name, Append(TasksOf(sec, name), text))

\* C21: in parse_file a non-blank line that is neither a section header nor
\* a list header becomes the last task of the most recently opened list, its
\* text being the content after a leading "digits, period, space" marker or,
\* without one, the whole trimmed line; nothing else of the model changes,
\* and the marker's digits play no part.
C21_TaskJoinsLastOpenedList ==
    (JustRead /\ TaskLineRead(call.line) /\ HeaderPlaces(LinesBefore) # {}) =>
        LET name == LastOpenedName(LinesBefore)
            where == LastOpenedSection(LinesBefore)
            text == TextOfTaskLine(call.line)
        IN  /\ where = "todo" =>
                /\ todo_lists = WithTaskAppended(call.st0.todo, name, text)
                /\ done_lists = call.st0.done
            /\ where = "done" =>
                /\ done_lists = WithTaskAppended(call.st0.done, name, text)
                /\ todo_lists = call.st0.todo
            /\ where = "none" =>
                /\ todo_lists = call.st0.todo
                /\ done_lists = call.st0.done

\* a section as parse_file returns it: a dict from names to task sequences
WellFormedSection(sec) ==
    /\ DOMAIN sec = 1..Len(sec)
    /\ \A i \in 1..Len(sec) :
          /\ DOMAIN sec[i] = {"name", "tasks"}
          /\ DOMAIN sec[i].tasks = 1..Len(sec[i].tasks)
          /\ \A j \in 1..Len(sec) : sec[i].name = sec[j].name => i = j

NoListOpened == HeaderPlaces(LinesBefore) = {}

\* C22: whatever lines the file holds, parse_file has a Todo and a Done section
\* to return; a task line read when no list header has been read yet is
\* dropped with the warning, and leaves every variable of the loop as it was,
\* so that the lines after it are parsed as if it were absent.
C22_OrphanTaskDropped ==
    /\ WellFormedSection(todo_lists) /\ WellFormedSection(done_lists)
    /\ (JustRead /\ TaskLineRead(call.line) /\ NoListOpened) =>
          /\ call.st = call.st0
          /\ todo_lists = call.st0.todo /\ done_lists = call.st0.done
          /\ report = Msg("task_without_list", 0)

\* a task line read under the Todo header before any list header
C22_Witness ==
    /\ JustRead /\ call.line_no = 2
    /\ TaskLineRead(call.line) /\ NoListOpened
    /\ call.st0.current = "todo"
    /\ report = Msg("task_without_list", 0)

\* what follows "# " in a section header, trimmed
SectionNameRead(line) == Strip(DropFirst(Strip(line), 2))

\* C23: in parse_file a line "# Todo" or "# Done" (exact, case-sensitive,
\* after trimming) makes that section the current one and changes nothing
\* else; any other "# " line changes none of the loop's variables, so the
\* section that was current before it stays current for the lines after it.
C23_SectionHeaders ==
    (JustRead /\ SectionHeader(call.line)) =>
        /\ todo_lists = call.st0.todo /\ done_lists = call.st0.done
        /\ call.st.list_name = call.st0.list_name
        /\ SectionNameRead(call.line) = <<"T","o","d","o">> => call.st.current = "todo"
        /\ SectionNameRead(call.line) = <<"D","o","n","e">> => call.st.current = "done"
        /\ SectionNameRead(call.line) \notin {<<"T","o","d","o">>, <<"D","o","n","e">>} =>
              /\ call.st = call.st0
              /\ report = Msg("unknown_section", 0)

\* "# todo" is read while Done is current and holds a list
C23_Witness ==
    /\ JustRead /\ SectionHeader(call.line)
    /\ SectionNameRead(call.line) = <<"t","o","d","o">>
    /\ call.st0.current = "done" /\ call.st0.done # <<>>
    /\ call.st.current = "done"

\* what follows "## " in a list header, trimmed
ListNameRead(line) == Strip(DropFirst(Strip(line), 3))

\* sec is sec0 with the list name opened: empty, every other list as it was
\* and where it was, a new name last
Opened(sec0, sec, name) ==
    /\ HasList(sec, name) /\ TasksOf(sec, name) = <<>>
    /\ Len(sec) = Len(sec0) + (IF HasList(sec0, name) THEN 0 ELSE 1)
    /\ \A i \in 1..Len(sec0) :
          /\ sec[i].name = sec0[i].name
          /\ sec0[i].name # name => sec[i] = sec0[i]

\* C24: in parse_file a "## name" line makes name a list of the current
\* section with no tasks, also when the section already held a list of that
\* name with tasks (they are discarded); the other lists and the other
\* section are as they were, and name is the list the next task lines join.
C24_ListHeaderOpensEmptyList ==
    (JustRead /\ ListHeader(call.line)) =>
        LET name == ListNameRead(call.line) IN
        /\ call.st.list_name = name
        /\ call.st.current = call.st0.current
        /\ call.st0.current = "todo" =>
              Opened(call.st0.todo, todo_lists, name) /\ done_lists = call.st0.done
        /\ call.st0.current = "done" =>
              Opened(call.st0.done, done_lists, name) /\ todo_lists = call.st0.todo
        /\ call.st0.current = "none" =>
              todo_lists = call.st0.todo /\ done_lists = call.st0.done

\* the header of a Todo list that already held a task is read again
C24_Witness ==
    /\ JustRead /\ ListHeader(call.line)
    /\ call.st0.current = "todo"
    /\ HasList(call.st0.todo, ListNameRead(call.line))
    /\ TasksOf(call.st0.todo, ListNameRead(call.line)) # <<>>
    /\ TasksOf(todo_lists, ListNameRead(call.line)) = <<>>

\* the texts of a sequence, one after the other
RECURSIVE JoinAll(_)
JoinAll(texts) == IF texts = <<>> THEN <<>> ELSE Head(texts) \o JoinAll(Tail(texts))

\* the k-th task of a list on its line
NumberedTask(k, task) == IntToStr(k) \o <<".", " ">> \o task \o <<NL>>

\* a list: its header, a blank line, its tasks numbered 1..N, a blank line
ListBlock(l) ==
    <<"#","#"," ">> \o l.name \o <<NL, NL>>
    \o JoinAll([k \in 1..Len(l.tasks) |-> NumberedTask(k, l.tasks[k])]) \o <<NL>>

SectionBlocks(sec) == JoinAll([i \in 1..Len(sec) |-> ListBlock(sec[i])])

\* C25: the file that write_file leaves is "# Todo", every Todo list in
\* insertion order as "## name" followed by its tasks in sequence order, then
\* "# Done" and every Done list likewise, the k-th task of each list being
\* written with the number k, whatever numbers the file held before.
C25_WriteFileNumbersTasks ==
    Returned("write_file") =>
        file = <<"#"," ","T","o","d","o", NL, NL>> \o SectionBlocks(todo_lists)
               \o <<"#"," ","D","o","n","e", NL, NL>> \o SectionBlocks(done_lists)

\* a model with a list of two tasks or more has been written
C25_Witness ==
    /\ Returned("write_file")
    /\ \E i \in 1..Len(todo_lists) : Len(todo_lists[i].tasks) >= 2

\* C29: parsing gives a normal form: the model parse_file returns for a file
\* is again what parse_file returns for the file write_file makes of that
\* model, list order and task order included.
C29_ParseIsNormalForm ==
    (pc = "idle" /\ call.op = "write_file_parse_file") =>
        /\ todo_lists = call.todo0
        /\ done_lists = call.done0

\* a file that parses to a Todo list of two tasks or more has been parsed,
\* written and parsed again
C29_Witness ==
    /\ pc = "idle" /\ call.op = "write_file_parse_file"
    /\ call.todo0 # <<>>
    /\ CountTasks(call.todo0) >= 2
    /\ todo_lists = call.todo0

\* both processes have parsed before either opened the file for writing,
\* both have written, and later is the one whose write ended last
RacedAndWritten(earlier, later) ==
    /\ pc[earlier] = "exited" /\ pc[later] = "exited"
    /\ call[earlier].fresh /\ call[later].fresh
    /\ call[earlier].closed = 1 /\ call[later].closed = 2

\* C26: when two invocations on the same file both parse it before either
\* writes, the file after both have written is the serialization of the later
\* writer's model alone, and neither has reported anything but the outcome
\* of its own command.
C26_LaterWriterWins ==
    \A earlier \in Procs, later \in Procs :
        RacedAndWritten(earlier, later) =>
            /\ file = WriteFileText(todo_lists[later], done_lists[later])
            /\ \A p \in {earlier, later} :
                  report[p] = RaceOutcome(call[p].todo0, call[p].done0, call[p]).msg

\* the process is past the offer to create the file and there is no file:
\* the user has declined
DeclinedCreation == file = NoFile /\ pc # "initialize_file"

\* C27: when the todo file does not exist and the user declines the offer to
\* create it, no later step of the same invocation (a command followed by
\* write_file) brings the file into existence.
C27_DeclinedFileStaysAbsent == [][DeclinedCreation => file' = NoFile]_vars

\* the places of the tasks of a section: list by list, task by task
TaskPlaces(sec) ==
    UNION {{<<i, j>> : j \in 1..Len(sec[i].tasks)} : i \in 1..Len(sec)}

TaskTexts(sec) == {sec[p[1]].tasks[p[2]] : p \in TaskPlaces(sec)}

\* how many tasks of the section have the text t
TaskCount(sec, t) == Cardinality({p \in TaskPlaces(sec) : sec[p[1]].tasks[p[2]] = t})

\* Todo and Done together hold the same multiset of task texts as on entry
SameTaskMultiset ==
    \A t \in TaskTexts(call.todo0) \cup TaskTexts(call.done0)
             \cup TaskTexts(todo_lists) \cup TaskTexts(done_lists) :
        TaskCount(todo_lists, t) + TaskCount(done_lists, t)
            = TaskCount(call.todo0, t) + TaskCount(call.done0, t)

\* C28: task conservation: order_task, done_task and restore_task, whether
\* they succeed or fail, never change the multiset of task texts held by Todo
\* and Done together, and done_list and restore_list do not change it when
\* the destination section has no list of the moved name.
C28_TaskConservation ==
    /\ (Returned("order_task") \/ Returned("done_task") \/ Returned("restore_task"))
           => SameTaskMultiset
    /\ (Returned("done_list") /\ ~HasList(call.done0, call.list_name))
           => SameTaskMultiset
    /\ (Returned("restore_list") /\ ~HasList(call.todo0, call.list_name))
           => SameTaskMultiset

\* order_task has changed the order of a list of two different tasks
C28_Witness ==
    /\ Returned("order_task")
    /\ todo_lists # call.todo0
    /\ Cardinality(TaskTexts(todo_lists)) >= 2

\* every list of sec0 with another name is in sec as it was and where it
\* was, and sec holds no new list of another name
OthersUntouched(sec0, sec, name) ==
    /\ \A i \in 1..Len(sec0) :
          sec0[i].name # name => (i <= Len(sec) /\ sec[i] = sec0[i])
    /\ \A i \in 1..Len(sec) :
          sec[i].name # name => (i <= Len(sec0) /\ sec0[i] = sec[i])

\* the names a call can resolve to: the one given, or a candidate offered
NamesInReach(c) ==
    {c.list_name} \cup {Candidates(c)[i] : i \in 1..Len(Candidates(c))}

====
